---------------------------- MODULE Spec2Model ----------------------------
(***************************************************************************)
(* A model of contrib/scripts/notemapgen.py, the generator of the test     *)
(* notemap "test.notemap".                                                 *)
(*                                                                         *)
(* The script is one straight-line program: open, one header write, a loop *)
(* over range(12, 128) with five writes per iteration, one trailer write,  *)
(* close.  Every call on the file object may raise; nothing is caught, so  *)
(* a raise ends the process.                                               *)
(*                                                                         *)
(* Representation of text.  A Python string is modelled by the sequence of *)
(* its newline-free segments, i.e. by what s.split("\n") returns: "a\n\nb" *)
(* is <<"a", "", "b">>, "" is <<"">>, "\n" is <<"", "">>.  The map is a    *)
(* bijection between strings and non-empty sequences of newline-free       *)
(* strings, so equality of representations is byte equality, and Cat is    *)
(* string concatenation.  The content written through the file object is   *)
(* kept in this form; a write either appends its whole argument or raises  *)
(* and appends nothing.                                                    *)
(***************************************************************************)
EXTENDS Integers, Sequences, FiniteSets, TLC

VARIABLES
    pc,         \* the statement the interpreter executes next, or done/failed
    file,       \* the file object bound to the name `file`, NoHandle before open
    it,         \* the next value of the range iterator, Unbound before the loop
    x,          \* the loop variable, Unbound before the first iteration
    disk,       \* the content of test.notemap, NoFile when it does not exist
    prior,      \* history: the content of test.notemap before the first run
    nwrites,    \* history: file.write calls that returned in the current run
    opens,      \* history: open calls that returned in the current run
    closes,     \* history: file.close calls that were executed in the current run
    iters,      \* history: loop iterations started in the current run
    failedAt,   \* history: the pc of the call that raised, "none" if none did
    run,        \* the number of the current run of the script
    outputs     \* history: the content left by each run that ended normally

vars == <<pc, file, it, x, disk, prior, nwrites, opens, closes, iters,
          failedAt, run, outputs>>

(***************************************************************************)
(* Bounds of the model.                                                    *)
(***************************************************************************)
\* how many times in succession the script is run (SpecTwice)
MaxRuns == 2

(***************************************************************************)
(* Program constants.                                                      *)
(***************************************************************************)
RangeStart == 12
RangeStop == 128
FileName == "test.notemap"

\* test.notemap does not exist: no string at all, unlike the empty string <<"">>
NoFile == <<>>
\* the name `file` is not bound yet
NoHandle == [name |-> "", state |-> "none"]
\* no value bound yet: a number the range iterator never yields
Unbound == -1

(***************************************************************************)
(* Strings.                                                                *)
(***************************************************************************)
\* a string literal without a newline in it
Text(t) == <<t>>

\* the string "\n"
NL == <<"", "">>

\* a + b on strings
Cat(a, b) == SubSeq(a, 1, Len(a) - 1) \o <<a[Len(a)] \o b[1]>> \o Tail(b)

Digit == <<"0", "1", "2", "3", "4", "5", "6", "7", "8", "9">>

RECURSIVE Digits(_)
Digits(n) ==
    IF n < 10 THEN Digit[n + 1]
    ELSE Digits(n \div 10) \o Digit[(n % 10) + 1]

\* str(n) for an int n: decimal, a leading "-" when negative
Str(n) == Text(IF n < 0 THEN "-" \o Digits(-n) ELSE Digits(n))

(***************************************************************************)
(* The arguments of the seven file.write calls.                            *)
(***************************************************************************)
\* "Test notemap file: " + file.name + "\n\n"
HeaderStr(name) ==
    Cat(Cat(Text("Test notemap file: "), Text(name)), Cat(NL, NL))

\* a faulty variant: one newline after the section header
SectionOneNewline(n) ==
    Cat(Cat(Text("[Drum "), Str(n)), Cat(Text("]"), NL))

\* "[Drum " + str(x) + "]\n\n"
SectionStr(n) ==
    Cat(Cat(Text("[Drum "), Str(n)), Cat(Text("]"), Cat(NL, NL)))

\* "dev-name = \"Dev note " + str(x) + "\"\n"
DevNameStr(n) ==
    Cat(Cat(Text("dev-name = \"Dev note "), Str(n)), Cat(Text("\""), NL))

\* a faulty variant: the offset off by one
GmNameOff(n) ==
    Cat(Cat(Text("gm-name = \"GM note "), Str(n - 11)), Cat(Text("\""), NL))

\* "gm-name = \"GM note " + str(x - 12) + "\"\n"
GmNameStr(n) ==
    Cat(Cat(Text("gm-name = \"GM note "), Str(n - 12)), Cat(Text("\""), NL))

\* "dev-note = " + str(x) + "\n"
DevNoteStr(n) ==
    Cat(Cat(Text("dev-note = "), Str(n)), NL)

\* a faulty variant: the offset forgotten
GmNoteNoOffset(n) ==
    Cat(Cat(Text("gm-note = "), Str(n)), Cat(NL, NL))

\* "gm-note = " + str(x - 12) + "\n\n"
GmNoteStr(n) ==
    Cat(Cat(Text("gm-note = "), Str(n - 12)), Cat(NL, NL))

\* a faulty variant: the trailer terminated by a newline
TrailerWithNewline ==
    Cat(Text("# vim: sw=4 ts=4 wm=4 et ft=dosini"), NL)

\* "# vim: sw=4 ts=4 wm=4 et ft=dosini"
TrailerStr ==
    Text("# vim: sw=4 ts=4 wm=4 et ft=dosini")

(***************************************************************************)
(* The file object.                                                        *)
(***************************************************************************)
\* the content after open(..., "w"): created empty, or truncated
Truncated == Text("")

\* a faulty variant: the write replaces the content
FileWriteOver(content, s) == s

\* the content after file.write(s) returned
FileWrite(content, s) == Cat(content, s)

\* what test.notemap may hold before the script runs
PriorContents ==
    { NoFile,
      Text(""),
      <<"stale", "">>,
      <<"Test notemap file: test.notemap", "", "[Drum 0]", "", "gm-note = -12">> }

WritePcs == {"header", "section", "devname", "gmname", "devnote", "gmnote", "trailer"}

Init ==
    /\ pc = "open"
    /\ file = NoHandle
    /\ it = Unbound
    /\ x = Unbound
    /\ disk \in PriorContents
    /\ prior = disk
    /\ nwrites = 0
    /\ opens = 0
    /\ closes = 0
    /\ iters = 0
    /\ failedAt = "none"
    /\ run = 1
    /\ outputs = <<>>

(***************************************************************************)
(* file = open("test.notemap", "w")                                        *)
(***************************************************************************)
\* a faulty variant: mode "a", the content is kept
OpenAppend ==
    /\ pc = "open"
    /\ file' = [name |-> FileName, state |-> "open"]
    /\ disk' = IF disk = NoFile THEN Truncated ELSE disk
    /\ opens' = opens + 1
    /\ pc' = "header"
    /\ UNCHANGED <<it, x, prior, nwrites, closes, iters, failedAt, run, outputs>>

Open ==
    /\ pc = "open"
    /\ file' = [name |-> FileName, state |-> "open"]
    /\ disk' = Truncated
    /\ opens' = opens + 1
    /\ pc' = "header"
    /\ UNCHANGED <<it, x, prior, nwrites, closes, iters, failedAt, run, outputs>>

\* a faulty variant: the error is swallowed and open is tried again
OpenFailRetry ==
    /\ pc = "open"
    /\ failedAt = "none"
    /\ failedAt' = "open"
    /\ UNCHANGED <<pc, file, it, x, disk, prior, nwrites, opens, closes, iters,
                   run, outputs>>

\* open raises: `file` is never bound, the process ends
OpenFail ==
    /\ pc = "open"
    /\ pc' = "failed"
    /\ failedAt' = "open"
    /\ UNCHANGED <<file, it, x, disk, prior, nwrites, opens, closes, iters,
                   run, outputs>>

(***************************************************************************)
(* The writes.  Each action is one file.write call that returns.           *)
(***************************************************************************)
Wrote(s, next) ==
    /\ disk' = FileWrite(disk, s)
    /\ nwrites' = nwrites + 1
    /\ pc' = next
    /\ UNCHANGED <<file, it, x, prior, opens, closes, iters, failedAt, run, outputs>>

WriteHeader ==
    /\ pc = "header"
    /\ Wrote(HeaderStr(file.name), "range")

WriteSection ==
    /\ pc = "section"
    /\ Wrote(SectionStr(x), "devname")

WriteDevName ==
    /\ pc = "devname"
    /\ Wrote(DevNameStr(x), "gmname")

WriteGmName ==
    /\ pc = "gmname"
    /\ Wrote(GmNameStr(x), "devnote")

WriteDevNote ==
    /\ pc = "devnote"
    /\ Wrote(DevNoteStr(x), "gmnote")

WriteGmNote ==
    /\ pc = "gmnote"
    /\ Wrote(GmNoteStr(x), "for")

WriteTrailer ==
    /\ pc = "trailer"
    /\ Wrote(TrailerStr, "close")

\* a faulty variant: the handle is released on the way out
WriteFailCloses ==
    /\ pc \in WritePcs
    /\ pc' = "failed"
    /\ failedAt' = pc
    /\ file' = [file EXCEPT !.state = "closed"]
    /\ closes' = closes + 1
    /\ UNCHANGED <<it, x, disk, prior, nwrites, opens, iters, run, outputs>>

\* a file.write call raises: nothing is caught, the process ends
WriteFail ==
    /\ pc \in WritePcs
    /\ pc' = "failed"
    /\ failedAt' = pc
    /\ UNCHANGED <<file, it, x, disk, prior, nwrites, opens, closes, iters,
                   run, outputs>>

(***************************************************************************)
(* for x in range(12, 128) :                                               *)
(***************************************************************************)
\* the range object and its iterator are made when the loop is entered
ForInit ==
    /\ pc = "range"
    /\ it' = RangeStart
    /\ pc' = "for"
    /\ UNCHANGED <<file, x, disk, prior, nwrites, opens, closes, iters,
                   failedAt, run, outputs>>

\* a faulty variant: a step of 2
ForNextSkip ==
    /\ pc = "for"
    /\ it < RangeStop
    /\ x' = it
    /\ it' = it + 2
    /\ iters' = iters + 1
    /\ pc' = "section"
    /\ UNCHANGED <<file, disk, prior, nwrites, opens, closes, failedAt, run, outputs>>

\* the iterator yields its next value, which is bound to x
ForNext ==
    /\ pc = "for"
    /\ it < RangeStop
    /\ x' = it
    /\ it' = it + 1
    /\ iters' = iters + 1
    /\ pc' = "section"
    /\ UNCHANGED <<file, disk, prior, nwrites, opens, closes, failedAt, run, outputs>>

\* the iterator is exhausted: x keeps its last value
ForExit ==
    /\ pc = "for"
    /\ ~(it < RangeStop)
    /\ pc' = "trailer"
    /\ UNCHANGED <<file, it, x, disk, prior, nwrites, opens, closes, iters,
                   failedAt, run, outputs>>

(***************************************************************************)
(* file.close()                                                            *)
(***************************************************************************)
\* a faulty variant: the handle is not released
CloseLeavesOpen ==
    /\ pc = "close"
    /\ closes' = closes + 1
    /\ outputs' = Append(outputs, disk)
    /\ pc' = "done"
    /\ UNCHANGED <<file, it, x, disk, prior, nwrites, opens, iters, failedAt, run>>

Close ==
    /\ pc = "close"
    /\ file' = [file EXCEPT !.state = "closed"]
    /\ closes' = closes + 1
    /\ outputs' = Append(outputs, disk)
    /\ pc' = "done"
    /\ UNCHANGED <<it, x, disk, prior, nwrites, opens, iters, failedAt, run>>

\* file.close() raises; whether the descriptor was released by then is the
\* runtime's business, so both outcomes are allowed
CloseFail ==
    /\ pc = "close"
    /\ \E st \in {"open", "closed"} : file' = [file EXCEPT !.state = st]
    /\ closes' = closes + 1
    /\ pc' = "failed"
    /\ failedAt' = "close"
    /\ UNCHANGED <<it, x, disk, prior, nwrites, opens, iters, run, outputs>>

(***************************************************************************)
(* The script is run again: a new process, the same working directory.     *)
(***************************************************************************)
Rerun ==
    /\ pc \in {"done", "failed"}
    /\ run < MaxRuns
    /\ run' = run + 1
    /\ pc' = "open"
    /\ file' = NoHandle
    /\ it' = Unbound
    /\ x' = Unbound
    /\ nwrites' = 0
    /\ opens' = 0
    /\ closes' = 0
    /\ iters' = 0
    /\ failedAt' = "none"
    /\ UNCHANGED <<disk, prior, outputs>>

Next ==
    \/ Open
    \/ OpenFail
    \/ WriteHeader
    \/ ForInit
    \/ ForNext
    \/ ForExit
    \/ WriteSection
    \/ WriteDevName
    \/ WriteGmName
    \/ WriteDevNote
    \/ WriteGmNote
    \/ WriteTrailer
    \/ WriteFail
    \/ Close
    \/ CloseFail

NextTwice == Next \/ Rerun

\* one run of the script
Spec == Init /\ [][Next]_vars

\* the script run MaxRuns times in succession
SpecTwice == Init /\ [][NextTwice]_vars

\* one run; the interpreter executes the next statement as long as there is one
FairSpec == Init /\ [][Next]_vars /\ WF_vars(Next)

(***************************************************************************)
(* The document the specification describes, line by line, written down    *)
(* independently of the script: decimal numerals come from ToString.       *)
(***************************************************************************)
\* the most extreme number looked for when a line of the file is parsed
MaxParsed == 300

Parsed == (0 - MaxParsed)..MaxParsed

HeaderLine == "Test notemap file: test.notemap"

TrailerLine == "# vim: sw=4 ts=4 wm=4 et ft=dosini"

SectionLine(n) == "[Drum " \o ToString(n) \o "]"

DevNameLine(n) == "dev-name = \"Dev note " \o ToString(n) \o "\""

GmNameLine(n) == "gm-name = \"GM note " \o ToString(n) \o "\""

DevNoteLine(n) == "dev-note = " \o ToString(n)

GmNoteLine(n) == "gm-note = " \o ToString(n)

BlockLines(n) ==
    << SectionLine(n), "", DevNameLine(n), GmNameLine(n - 12),
       DevNoteLine(n), GmNoteLine(n - 12), "" >>

ExpectedLines ==
    [ i \in 1..815 |->
        IF i = 1 THEN HeaderLine
        ELSE IF i = 2 THEN ""
        ELSE IF i = 815 THEN TrailerLine
        ELSE BlockLines(12 + ((i - 3) \div 7))[((i - 3) % 7) + 1] ]

\* the lines of a text: a last line need not be terminated
Lines(c) ==
    IF c = <<>> THEN <<>>
    ELSE IF c[Len(c)] = "" THEN SubSeq(c, 1, Len(c) - 1) ELSE c

NonBlank(L) == SelectSeq(L, LAMBDA l : l # "")

IsPrefix(a, b) == Len(a) <= Len(b) /\ \A i \in DOMAIN a : a[i] = b[i]

\* the numbers n for which line l is the section header [Drum n]
SectionOf(l) == { n \in Parsed : l = SectionLine(n) }

GmNoteOf(l) == { n \in Parsed : l = GmNoteLine(n) }

DevNoteOf(l) == { n \in Parsed : l = DevNoteLine(n) }

\* the run ended normally
Done == pc = "done"

\* the trailer write returned
AfterTrailer == pc \in {"close", "done"} \/ (pc = "failed" /\ failedAt = "close")

(***************************************************************************)
(* C1.  In the file a run without I/O failure leaves, every section header *)
(* [Drum N] is followed by the four key-value lines dev-name = "Dev note   *)
(* N", gm-name = "GM note N-12", dev-note = N, gm-note = N-12.             *)
(***************************************************************************)
C1_BlocksConsistent ==
    Done =>
        LET L == NonBlank(Lines(disk)) IN
        \A i \in DOMAIN L : \A n \in SectionOf(L[i]) :
            /\ i + 4 <= Len(L)
            /\ L[i + 1] = DevNameLine(n)
            /\ L[i + 2] = GmNameLine(n - 12)
            /\ L[i + 3] = DevNoteLine(n)
            /\ L[i + 4] = GmNoteLine(n - 12)

C1_Witness ==
    /\ Done
    /\ \E i \in DOMAIN disk : disk[i] = "[Drum 12]"
    /\ \E i \in DOMAIN disk : disk[i] = "gm-name = \"GM note 115\""

(***************************************************************************)
(* C2.  After a run without I/O failure the file exists and holds exactly  *)
(* 116 section headers, whose numbers are 12, 13, ..., 127 in this order.  *)
(***************************************************************************)
C2_SectionsExact ==
    Done =>
        LET L == Lines(disk)
            H == { i \in DOMAIN L : SectionOf(L[i]) # {} }
        IN  /\ disk # NoFile
            /\ Cardinality(H) = 116
            /\ \A i \in H :
                 SectionOf(L[i]) = { 12 + Cardinality({ j \in H : j < i }) }
            /\ UNION { SectionOf(L[i]) : i \in H } = 12..127

C2_Witness ==
    /\ Done
    /\ iters = 116
    /\ \E i \in DOMAIN disk : disk[i] = "[Drum 127]"

(***************************************************************************)
(* C3.  Once the trailer is written the file begins with the line          *)
(* "Test notemap file: test.notemap" and one blank line, and its last      *)
(* characters are the trailer, with no newline after it.                   *)
(***************************************************************************)
C3_HeaderAndTrailer ==
    AfterTrailer =>
        /\ Len(disk) >= 4
        /\ disk[1] = HeaderLine
        /\ disk[2] = ""
        /\ disk[3] # ""
        /\ disk[Len(disk)] = TrailerLine
        /\ Cardinality({ i \in DOMAIN disk : disk[i] = TrailerLine }) = 1

C3_Witness ==
    /\ Done
    /\ file.name = "test.notemap"
    /\ disk[Len(disk)] = "# vim: sw=4 ts=4 wm=4 et ft=dosini"

\* the number of lines in the file after w writes returned
LinesAfterWrites(w) ==
    IF w = 0 THEN 0
    ELSE IF w = 582 THEN 815
    ELSE 2 + 7 * ((w - 1) \div 5) + <<0, 2, 3, 4, 5>>[((w - 1) % 5) + 1]

(***************************************************************************)
(* C4.  The finished document is 815 lines: the two header lines, then for *)
(* N = 12..127 the seven lines [Drum N], blank, dev-name, gm-name,         *)
(* dev-note, gm-note, blank, then the trailer; and while it is written the *)
(* number of lines follows the order of the writes.                        *)
(***************************************************************************)
C4_FixedOrder ==
    /\ file.state # "none" => Len(Lines(disk)) = LinesAfterWrites(nwrites)
    /\ AfterTrailer =>
        /\ Len(disk) = 815
        /\ disk[1] = HeaderLine /\ disk[2] = ""
        /\ disk[815] = TrailerLine
        /\ \A k \in 0..115 : \A j \in 1..7 :
             disk[2 + 7 * k + j] = BlockLines(12 + k)[j]

C4_Witness ==
    /\ Done
    /\ nwrites = 582
    /\ disk[808] = "[Drum 127]"
    /\ disk[813] = "gm-note = 115"
    /\ disk[814] = ""

(***************************************************************************)
(* C5.  Every run that ends normally leaves the same bytes, whatever       *)
(* test.notemap held before, the file not existing included.               *)
(***************************************************************************)
C5_Idempotent ==
    /\ \A i \in DOMAIN outputs : outputs[i] = outputs[1] /\ outputs[i] = ExpectedLines
    /\ Done => disk = ExpectedLines

C5_Witness ==
    /\ Done
    /\ run = 2
    /\ Len(outputs) = 2
    /\ prior = <<"stale", "">>

(***************************************************************************)
(* C6.  The gm-note values written are exactly 0..115, each once, and the  *)
(* dev-note -> gm-note mapping of the blocks is one-to-one from 12..127.   *)
(***************************************************************************)
C6_GmRange ==
    Done =>
        LET L == Lines(disk)
            G == { i \in DOMAIN L : GmNoteOf(L[i]) # {} }
            \* the pairs <<dev-note, gm-note>> of two successive lines
            M == UNION { DevNoteOf(L[i - 1]) \X GmNoteOf(L[i]) : i \in G \ {1} }
        IN  /\ Cardinality(G) = 116
            /\ \A i \in G : GmNoteOf(L[i]) \subseteq 0..115
            /\ { m[2] : m \in M } = 0..115
            /\ { m[1] : m \in M } = 12..127
            /\ \A m1, m2 \in M : (m1[2] = m2[2]) <=> (m1[1] = m2[1])

C6_Witness ==
    /\ Done
    /\ \E i \in DOMAIN disk : disk[i] = "dev-note = 12" /\ disk[i + 1] = "gm-note = 0"
    /\ \E i \in DOMAIN disk : disk[i] = "dev-note = 127" /\ disk[i + 1] = "gm-note = 115"

(***************************************************************************)
(* C7.  When open raises the run has failed: `file` is not bound, nothing  *)
(* was written or closed, and no statement of the script is executed.      *)
(***************************************************************************)
C7_OpenFailureFatal ==
    failedAt = "open" =>
        /\ pc = "failed"
        /\ file = NoHandle
        /\ opens = 0 /\ nwrites = 0 /\ closes = 0
        /\ ~ENABLED Next

C7_Witness ==
    /\ pc = "failed"
    /\ failedAt = "open"
    /\ prior = <<"stale", "">>

(***************************************************************************)
(* C8.  A run opens the file once, before the first write, and closes it   *)
(* once, after the trailer; writes happen only while the handle is open;   *)
(* the run terminates, and when no call raised it ends after 116           *)
(* iterations with the handle closed.                                      *)
(***************************************************************************)
C8_HandleDiscipline ==
    /\ [](opens <= 1 /\ closes <= 1)
    /\ [](pc \in WritePcs => file.state = "open" /\ opens = 1 /\ closes = 0)
    /\ [](nwrites > 0 => opens = 1)
    /\ [](Done => /\ opens = 1 /\ closes = 1
                  /\ file.state = "closed"
                  /\ iters = 116 /\ nwrites = 582)
    /\ [][closes' # closes => pc = "close" /\ nwrites = 582]_vars
    /\ <>(failedAt # "none" \/ (Done /\ file.state = "closed" /\ iters = 116))

C8_Witness ==
    /\ Done
    /\ opens = 1 /\ closes = 1
    /\ file.state = "closed"
    /\ iters = 116

(***************************************************************************)
(* C9.  When a write raises, the run has failed at once: close was not     *)
(* executed, the handle is still open, and no later statement runs.        *)
(***************************************************************************)
C9_WriteFailureFatal ==
    failedAt \in WritePcs =>
        /\ pc = "failed"
        /\ file.state = "open"
        /\ closes = 0
        /\ ~ENABLED Next

C9_Witness ==
    /\ pc = "failed"
    /\ failedAt = "devnote"
    /\ x = 64
    /\ file.state = "open"

(***************************************************************************)
(* C10.  What has been written is always a prefix of the 815-line          *)
(* document, and a write only appends to it.                               *)
(***************************************************************************)
C10_AppendOnly ==
    /\ [](file.state # "none" => IsPrefix(Lines(disk), ExpectedLines))
    /\ [][pc # "open" => IsPrefix(Lines(disk), Lines(disk'))]_vars

C10_Witness ==
    /\ pc = "failed"
    /\ failedAt = "gmname"
    /\ x = 100
    /\ Len(Lines(disk)) = 2 + 7 * 88 + 3

=============================================================================
